---- MODULE Spec2Model ----
(***************************************************************************)
(* Model of the finance-tracker ledger engine:                             *)
(*   src/app/storage/transaction_dict.py  (TransactionDictManager)         *)
(*   src/app/factories/transaction_factory.py (TransactionFactory)         *)
(*   src/utils/errors.py                  (exception classes)              *)
(*   src/utils/deserializer.py            (deserialize_transactions)       *)
(*   src/app/storage/json_storage.py      (JsonStorage)                    *)
(*   src/utils/cli_menu.py                (handle_menu_choice)             *)
(*   src/main.py                          (main)                           *)
(*                                                                         *)
(* Python strings are sequences of one-character strings, so that          *)
(* str.lower, str.strip, str.isdigit, int() and datetime.strptime are      *)
(* computed character by character.  The manager's defaultdict is an       *)
(* ordered sequence of <<key, list>> entries (a dict keeps insertion       *)
(* order, and reading a missing key of a defaultdict inserts it).          *)
(***************************************************************************)
EXTENDS Integers, Sequences, FiniteSets, TLC

VARIABLES data, caps, rangeFn, builder, run, last

vars == <<data, caps, rangeFn, builder, run, last>>

(***************************************************************************)
(* Bounds of the model.                                                    *)
(***************************************************************************)
\* most transactions the ledger holds at once
MaxTx == 2
\* most transactions the ledger holds at once where only its keys matter
MaxRangeTx == 3
\* deletion closures (show_transaction_by_date results) kept alive at once
NCaps == 2
\* longest sorted_dates argument handed to a display/aggregate operation
MaxKeys == 2
\* most transactions the ledger holds at once under the type filters
MaxFilterTx == 3
\* most transactions the ledger holds at once when a factory object is added
\* as it stands
MaxBuilt == 1

(***************************************************************************)
(* Characters and strings.                                                 *)
(***************************************************************************)
Digits == <<"0", "1", "2", "3", "4", "5", "6", "7", "8", "9">>

IsDigitChar(c) == \E i \in 1..10 : Digits[i] = c

DigitVal(c) == (CHOOSE i \in 1..10 : Digits[i] = c) - 1

DigitChar(n) == Digits[n + 1]

UpperChars == <<"F", "O", "D", "R", "E", "N", "T", "I", "C", "M">>

LowerChars == <<"f", "o", "d", "r", "e", "n", "t", "i", "c", "m">>

\* str.lower() on one character
LowerChar(c) ==
    IF \E i \in 1..Len(UpperChars) : UpperChars[i] = c
    THEN LowerChars[CHOOSE i \in 1..Len(UpperChars) : UpperChars[i] = c]
    ELSE c

\* str.lower()
Lower(s) == [i \in 1..Len(s) |-> LowerChar(s[i])]

IsSpaceChar(c) == c = " "

RECURSIVE LStrip(_)
LStrip(s) ==
    IF s = <<>> THEN <<>>
    ELSE IF IsSpaceChar(Head(s)) THEN LStrip(Tail(s)) ELSE s

RECURSIVE RStrip(_)
RStrip(s) ==
    IF s = <<>> THEN <<>>
    ELSE IF IsSpaceChar(s[Len(s)]) THEN RStrip(SubSeq(s, 1, Len(s) - 1)) ELSE s

\* str.strip()
Strip(s) == RStrip(LStrip(s))

\* str.isdigit(): non-empty and every character a digit
IsDigitStr(s) == s # <<>> /\ \A i \in 1..Len(s) : IsDigitChar(s[i])

\* int() of a string of digits
RECURSIVE IntOfDigits(_)
IntOfDigits(s) ==
    IF s = <<>> THEN 0
    ELSE 10 * IntOfDigits(SubSeq(s, 1, Len(s) - 1)) + DigitVal(s[Len(s)])

(***************************************************************************)
(* Calendar dates: datetime.strptime(s, "%Y-%m-%d").date(), date.isoformat *)
(* and date.strftime("%Y-%m-%d").  A parsed date is <<year, month, day>>.  *)
(***************************************************************************)
NoDate == <<0, 0, 0>>

IsLeap(y) == (y % 4 = 0 /\ y % 100 # 0) \/ y % 400 = 0

DaysInMonth(y, m) ==
    IF m = 2 THEN (IF IsLeap(y) THEN 29 ELSE 28)
    ELSE IF m \in {4, 6, 9, 11} THEN 30 ELSE 31

\* %m : 1[0-2] | 0[1-9] | [1-9]
MonthField(f) ==
    IF Len(f) = 1 /\ IsDigitChar(f[1]) /\ f[1] # "0" THEN DigitVal(f[1])
    ELSE IF Len(f) = 2 /\ f[1] = "1" /\ f[2] \in {"0", "1", "2"}
         THEN 10 + DigitVal(f[2])
    ELSE IF Len(f) = 2 /\ f[1] = "0" /\ IsDigitChar(f[2]) /\ f[2] # "0"
         THEN DigitVal(f[2])
    ELSE 0

\* %d : 3[0-1] | [1-2]\d | 0[1-9] | [1-9] | " "[1-9]
DayField(f) ==
    IF Len(f) = 1 /\ IsDigitChar(f[1]) /\ f[1] # "0" THEN DigitVal(f[1])
    ELSE IF Len(f) = 2 /\ f[1] = "3" /\ f[2] \in {"0", "1"}
         THEN 30 + DigitVal(f[2])
    ELSE IF Len(f) = 2 /\ f[1] \in {"1", "2"} /\ IsDigitChar(f[2])
         THEN 10 * DigitVal(f[1]) + DigitVal(f[2])
    ELSE IF Len(f) = 2 /\ f[1] \in {"0", " "} /\ IsDigitChar(f[2]) /\ f[2] # "0"
         THEN DigitVal(f[2])
    ELSE 0

\* position of the first "-" of s at or after position i (0 when there is none)
RECURSIVE DashFrom(_, _)
DashFrom(s, i) ==
    IF i > Len(s) THEN 0
    ELSE IF s[i] = "-" THEN i ELSE DashFrom(s, i + 1)

\* datetime.strptime(s, "%Y-%m-%d").date(); NoDate stands for ValueError
Strptime(s) ==
    IF Len(s) < 8 \/ ~IsDigitStr(SubSeq(s, 1, 4)) \/ s[5] # "-" THEN NoDate
    ELSE LET p  == DashFrom(s, 6)
             y  == IntOfDigits(SubSeq(s, 1, 4))
             m  == IF p = 0 THEN 0 ELSE MonthField(SubSeq(s, 6, p - 1))
             d  == IF p = 0 THEN 0 ELSE DayField(SubSeq(s, p + 1, Len(s)))
         IN  IF y >= 1 /\ m >= 1 /\ d >= 1 /\ d <= DaysInMonth(y, m)
             THEN <<y, m, d>> ELSE NoDate

\* zero-padded decimal of n in w characters
RECURSIVE Pad(_, _)
Pad(n, w) == IF w = 0 THEN <<>> ELSE Pad(n \div 10, w - 1) \o <<DigitChar(n % 10)>>

\* date.isoformat() and date.strftime("%Y-%m-%d")
IsoFormat(dt) == Pad(dt[1], 4) \o <<"-">> \o Pad(dt[2], 2) \o <<"-">> \o Pad(dt[3], 2)

\* date.__le__ and date.__gt__
DateLE(a, b) ==
    \/ a[1] < b[1]
    \/ a[1] = b[1] /\ a[2] < b[2]
    \/ a[1] = b[1] /\ a[2] = b[2] /\ a[3] <= b[3]

DateGT(a, b) == ~DateLE(a, b)

(***************************************************************************)
(* Exception classes (src/utils/errors.py) and results of a call.          *)
(***************************************************************************)
FinanceTrackerErrors ==
    {"EmptyInputError", "InvalidInputError", "TransactionNotFoundError",
     "CategoryNotFoundError", "DateNotFoundError"}

\* the class an exception class derives from
ErrorBase(kind) ==
    IF kind \in FinanceTrackerErrors THEN "FinanceTrackerError" ELSE "Exception"

Ok(v) == [kind |-> "ok", val |-> v]

Raise(kind) == [kind |-> kind, val |-> <<>>]

(***************************************************************************)
(* The defaultdict(list) held in TransactionDictManager.data.              *)
(***************************************************************************)
Keys(d) == [i \in 1..Len(d) |-> d[i].k]

HasKey(d, k) == \E i \in 1..Len(d) : d[i].k = k

IndexOfKey(d, k) == CHOOSE i \in 1..Len(d) : d[i].k = k

\* d[k] for a key that is present
Get(d, k) == d[IndexOfKey(d, k)].v

\* the dict after evaluating d[k]: defaultdict inserts list() for a missing key
Touch(d, k) == IF HasKey(d, k) THEN d ELSE Append(d, [k |-> k, v |-> <<>>])

\* the dict after evaluating d[k] for every k of ks, in order
RECURSIVE TouchAll(_, _)
TouchAll(d, ks) == IF ks = <<>> THEN d ELSE TouchAll(Touch(d, Head(ks)), Tail(ks))

\* the dict after replacing the list held under the present key k
Put(d, k, v) == [d EXCEPT ![IndexOfKey(d, k)].v = v]

\* del d[k]
DelKey(d, k) ==
    LET i == IndexOfKey(d, k)
    IN  SubSeq(d, 1, i - 1) \o SubSeq(d, i + 1, Len(d))

\* [t for items in d.values() for t in items]
RECURSIVE Values(_)
Values(d) == IF d = <<>> THEN <<>> ELSE Head(d).v \o Values(Tail(d))

RECURSIVE SelectSeqBy(_, _)
SelectSeqBy(s, dateStr) ==
    IF s = <<>> THEN <<>>
    ELSE (IF Head(s).date = dateStr THEN <<Head(s)>> ELSE <<>>)
         \o SelectSeqBy(Tail(s), dateStr)

\* list.remove(x): drops the first element equal to x
RECURSIVE ListRemove(_, _)
ListRemove(s, x) ==
    IF s = <<>> THEN <<>>
    ELSE IF Head(s) = x THEN Tail(s) ELSE <<Head(s)>> \o ListRemove(Tail(s), x)

\* list.pop(i) for a 0-based i in range: the list that is left
ListPop(s, i) == SubSeq(s, 1, i) \o SubSeq(s, i + 2, Len(s))

InList(s, x) == \E i \in 1..Len(s) : s[i] = x

(***************************************************************************)
(* Inputs.                                                                 *)
(***************************************************************************)
D0101 == <<"2", "0", "2", "4", "-", "0", "1", "-", "0", "1">>

D0102 == <<"2", "0", "2", "4", "-", "0", "1", "-", "0", "2">>

\* the same day as D0102, not zero-padded: strptime accepts it
D12 == <<"2", "0", "2", "4", "-", "1", "-", "2">>

D0501 == <<"2", "0", "2", "4", "-", "0", "5", "-", "0", "1">>

\* month 13: strptime raises ValueError
DBad == <<"2", "0", "2", "4", "-", "1", "3", "-", "0", "1">>

Blank == <<>>

\* values datetime.now().date() takes
Clock == {<<2024, 1, 1>>, <<2024, 1, 2>>}

None == <<"None">>

Food == <<"F", "o", "o", "d">>

food == <<"f", "o", "o", "d">>

rent == <<"r", "e", "n", "t">>

Types == {"income", "expense"}

Categories == {Food, rent}

\* amounts held by the transactions of the ledger, in tenths (see FloatOf)
Amounts == {2, 5}

Descriptions == {None}

\* date strings typed at the prompts
DateStrs == {D0101, D0102, D12, D0501, DBad, Blank}

\* date strings that denote a calendar date: the keys a caller passes in
\* sorted_dates
KeyStrs == {s \in DateStrs : Strptime(s) # NoDate}

\* sorted_dates arguments over the date strings S
KeyListsOf(S) == UNION {[1..n -> S] : n \in 0..MaxKeys}

\* category strings passed to show_transaction_by_category
CategoryArgs == {food, Food, rent, <<" ">>}

\* strings handed to the setters of a TransactionFactory
TypeStrs ==
    {<<"i", "n", "c", "o", "m", "e">>, <<"e", "x", "p", "e", "n", "s", "e">>,
     <<"I", "n", "c", "o", "m", "e">>, <<" ">>, Blank, None}

CategoryStrs == {Food, <<" ">>, Blank, None}

AmountStrs ==
    {<<"5">>, <<"0">>, <<"-", "5">>, <<"1", "2", ".", "5">>, <<" ", "5", " ">>,
     <<"n", "a", "n">>, <<"x">>, <<" ">>, Blank, None}

FactoryDateStrs == {D12, DBad, <<" ">>, Blank, None}

DescriptionStrs == {<<"x">>, Blank, None}

\* index strings typed at the delete prompt
IndexStrs == {<<"0">>, <<"1">>, <<"2">>, <<"4">>, <<"-", "1">>, <<"x">>, Blank}

(***************************************************************************)
(* TransactionFactory: the date setter, and the object main() hands to     *)
(* add_transaction once every setter of the add flow has succeeded.        *)
(***************************************************************************)
\* TransactionFactory.date setter: the value stored in _date, or the error
SetDate(s, now) ==
    IF Strip(s) = <<>> THEN Ok(IsoFormat(now))
    ELSE IF Strptime(s) = NoDate THEN Raise("InvalidInputError")
    ELSE Ok(s)

\* the factory after t_type, category, amount, date and description are set
Factory(ty, c, a, ds, desc, now) ==
    [t_type |-> ty, category |-> c, amount |-> a,
     date |-> SetDate(ds, now).val, description |-> desc]

(***************************************************************************)
(* float objects.  A finite float is held as its number of tenths (12.5 is *)
(* 125); NaN is held as a code that no finite amount of the model reaches, *)
(* and every comparison with it is false, as for an IEEE 754 float.        *)
(***************************************************************************)
NaN == 1000000

FloatLT(a, b) == a # NaN /\ b # NaN /\ a < b

FloatGE(a, b) == a # NaN /\ b # NaN /\ a >= b

\* position of the first "." of s at or after position i (0 when there is none)
RECURSIVE PointFrom(_, _)
PointFrom(s, i) ==
    IF i > Len(s) THEN 0
    ELSE IF s[i] = "." THEN i ELSE PointFrom(s, i + 1)

\* an unsigned decimal literal: digits, digits "." , "." digits or
\* digits "." digits (the model types at most one fractional digit)
IsDecimal(u) ==
    LET p == PointFrom(u, 1)
    IN  IF p = 0 THEN IsDigitStr(u)
        ELSE LET ip == SubSeq(u, 1, p - 1)
                 fp == SubSeq(u, p + 1, Len(u))
             IN  /\ ip # <<>> \/ fp # <<>>
                 /\ ip = <<>> \/ IsDigitStr(ip)
                 /\ fp = <<>> \/ (IsDigitStr(fp) /\ Len(fp) = 1)

\* the number of tenths an unsigned decimal literal denotes
Tenths(u) ==
    LET p == PointFrom(u, 1)
    IN  IF p = 0 THEN 10 * IntOfDigits(u)
        ELSE 10 * IntOfDigits(SubSeq(u, 1, p - 1))
             + IntOfDigits(SubSeq(u, p + 1, Len(u)))

\* float(s): surrounding whitespace is dropped, a sign is optional, "nan" in
\* any letter case is accepted; ValueError otherwise.  The exponent,
\* underscore and infinity forms are not among the strings the model types.
FloatOf(s) ==
    LET u    == Strip(s)
        neg  == u # <<>> /\ u[1] = "-"
        body == IF u # <<>> /\ u[1] \in {"-", "+"} THEN Tail(u) ELSE u
    IN  IF Lower(body) = <<"n", "a", "n">> THEN Ok(NaN)
        ELSE IF ~IsDecimal(body) THEN Raise("ValueError")
        ELSE Ok(IF neg THEN 0 - Tenths(body) ELSE Tenths(body))

\* decimal digits of a natural number, without leading zeros
RECURSIVE NatStr(_)
NatStr(n) == IF n < 10 THEN <<DigitChar(n)>> ELSE NatStr(n \div 10) \o <<DigitChar(n % 10)>>

\* str(x) of a float x
FloatStr(x) ==
    IF x = NaN THEN <<"n", "a", "n">>
    ELSE IF x < 0 THEN <<"-">> \o NatStr((0 - x) \div 10) \o <<".">>
                       \o <<DigitChar((0 - x) % 10)>>
    ELSE NatStr(x \div 10) \o <<".">> \o <<DigitChar(x % 10)>>

(***************************************************************************)
(* TransactionFactory: the object and its five property setters.  A field  *)
(* that holds None holds NoType (type names are strings), NoAmount (floats *)
(* are integers) or None.  Each setter gives the object after the call and *)
(* the outcome of the call.                                                *)
(***************************************************************************)
NoType == "None"

NoAmount == 0 - NaN

\* TransactionFactory.__init__
NewFactory ==
    [t_type |-> NoType, category |-> None, amount |-> NoAmount,
     date |-> None, description |-> None]

IncomeStr == <<"i", "n", "c", "o", "m", "e">>

ExpenseStr == <<"e", "x", "p", "e", "n", "s", "e">>

\* the type name spelled by one of the two accepted strings, and its spelling
TypeName(s) == IF s = IncomeStr THEN "income" ELSE "expense"

TypeChars(ty) ==
    IF ty = "income" THEN IncomeStr ELSE IF ty = "expense" THEN ExpenseStr ELSE None

\* t_type setter
FactoryTType(b, s) ==
    IF s = None \/ Strip(s) = <<>> THEN [b |-> b, ret |-> Raise("EmptyInputError")]
    ELSE IF s \notin {IncomeStr, ExpenseStr}
    THEN [b |-> b, ret |-> Raise("InvalidInputError")]
    ELSE [b |-> [b EXCEPT !.t_type = TypeName(s)], ret |-> Ok(<<>>)]

\* category setter
FactoryCategory(b, s) ==
    IF s = None \/ Strip(s) = <<>> THEN [b |-> b, ret |-> Raise("EmptyInputError")]
    ELSE [b |-> [b EXCEPT !.category = s], ret |-> Ok(<<>>)]

\* amount setter that forgets the amount it held when the new one is rejected
FactoryAmountClears(b, s) ==
    IF s = None \/ Strip(s) = <<>>
    THEN [b |-> [b EXCEPT !.amount = NoAmount], ret |-> Raise("EmptyInputError")]
    ELSE IF FloatOf(s).kind # "ok"
    THEN [b |-> [b EXCEPT !.amount = NoAmount], ret |-> Raise("InvalidInputError")]
    ELSE IF FloatLT(FloatOf(s).val, 0)
    THEN [b |-> [b EXCEPT !.amount = NoAmount], ret |-> Raise("InvalidInputError")]
    ELSE [b |-> [b EXCEPT !.amount = FloatOf(s).val], ret |-> Ok(<<>>)]

\* amount setter
FactoryAmount(b, s) ==
    IF s = None \/ Strip(s) = <<>> THEN [b |-> b, ret |-> Raise("EmptyInputError")]
    ELSE IF FloatOf(s).kind # "ok" THEN [b |-> b, ret |-> Raise("InvalidInputError")]
    ELSE IF FloatLT(FloatOf(s).val, 0) THEN [b |-> b, ret |-> Raise("InvalidInputError")]
    ELSE [b |-> [b EXCEPT !.amount = FloatOf(s).val], ret |-> Ok(<<>>)]

\* date setter
FactoryDate(b, s, now) ==
    IF s = None \/ Strip(s) = <<>>
    THEN [b |-> [b EXCEPT !.date = IsoFormat(now)], ret |-> Ok(<<>>)]
    ELSE IF Strptime(s) = NoDate THEN [b |-> b, ret |-> Raise("InvalidInputError")]
    ELSE [b |-> [b EXCEPT !.date = s], ret |-> Ok(<<>>)]

\* description setter
FactoryDescription(b, s) == [b |-> [b EXCEPT !.description = s], ret |-> Ok(<<>>)]

(***************************************************************************)
(* TransactionDictManager.                                                 *)
(***************************************************************************)
\* add_transaction that skips a transaction its date's list already holds
AddTransactionOnce(d, f) ==
    LET t  == [t_type |-> f.t_type, category |-> f.category, amount |-> f.amount,
               date |-> f.date,
               description |-> IF f.description # None THEN f.description
                               ELSE <<"-">>]
        d1 == Touch(d, f.date)
    IN  IF InList(Get(d1, f.date), t) THEN d1
        ELSE Put(d1, f.date, Append(Get(d1, f.date), t))

\* add_transaction that stores the date field in ISO form under the key as typed
AddTransactionIsoField(d, f) ==
    LET t  == [t_type |-> f.t_type, category |-> f.category, amount |-> f.amount,
               date |-> IF Strptime(f.date) # NoDate THEN IsoFormat(Strptime(f.date))
                        ELSE f.date,
               description |-> IF f.description # None THEN f.description
                               ELSE <<"-">>]
        d1 == Touch(d, f.date)
    IN  Put(d1, f.date, Append(Get(d1, f.date), t))

\* add_transaction: the dict stored under the key transaction.date
AddTransaction(d, f) ==
    LET t  == [t_type |-> f.t_type, category |-> f.category, amount |-> f.amount,
               date |-> f.date,
               description |-> IF f.description # None THEN f.description
                               ELSE <<"-">>]
        d1 == Touch(d, f.date)
    IN  Put(d1, f.date, Append(Get(d1, f.date), t))

\* sorted(keys, key=strptime): stable insertion sort on the parsed dates
RECURSIVE InsertByDate(_, _)
InsertByDate(sorted, k) ==
    IF sorted = <<>> THEN <<k>>
    ELSE IF DateLE(Strptime(Head(sorted)), Strptime(k))
         THEN <<Head(sorted)>> \o InsertByDate(Tail(sorted), k)
         ELSE <<k>> \o sorted

RECURSIVE SortByDate(_)
SortByDate(ks) ==
    IF ks = <<>> THEN <<>>
    ELSE InsertByDate(SortByDate(SubSeq(ks, 1, Len(ks) - 1)), ks[Len(ks)])

\* the rows printed under a date header
Shown(date, rows) == [date |-> date, rows |-> rows]

ShowRows(d, ks) == [i \in 1..Len(ks) |-> Shown(ks[i], Get(d, ks[i]))]

\* every key is accepted by strptime (otherwise the key function raises)
KeysParse(ks) == \A i \in 1..Len(ks) : Strptime(ks[i]) # NoDate

\* show_all_transactions_for_all_time
ShowAllTransactionsForAllTime(d) ==
    IF d = <<>> THEN [data |-> d, ret |-> Raise("TransactionNotFoundError")]
    ELSE IF ~KeysParse(Keys(d)) THEN [data |-> d, ret |-> Raise("ValueError")]
    ELSE LET sorted == SortByDate(Keys(d))
         IN  [data |-> d, ret |-> Ok([dates |-> sorted, shown |-> ShowRows(d, sorted)])]

\* get_transactions_by_date_range that binds no lower bound for a start date
\* it cannot parse
GetTransactionsByDateRangeLenient(start) ==
    IF start # <<>> /\ Strptime(start) # NoDate
    THEN Ok([start |-> Strptime(start)])
    ELSE Ok([start |-> Blank])

\* get_transactions_by_date_range: the closure over the parsed start date
GetTransactionsByDateRange(start) ==
    IF start # <<>>
    THEN IF Strptime(start) = NoDate THEN Raise("InvalidInputError")
         ELSE Ok([start |-> Strptime(start)])
    ELSE Ok([start |-> Blank])

RECURSIVE FilterKeys(_, _, _)
FilterKeys(ks, lo, hi) ==
    IF ks = <<>> THEN <<>>
    ELSE (IF (lo = Blank \/ DateLE(lo, Strptime(Head(ks))))
              /\ DateLE(Strptime(Head(ks)), hi)
          THEN <<Head(ks)>> ELSE <<>>) \o FilterKeys(Tail(ks), lo, hi)

\* inner that returns the filtered keys in dict order, without sorting them
InnerUnsorted(d, fn, end, now) ==
    IF end # <<>> /\ Strptime(end) = NoDate THEN Raise("InvalidInputError")
    ELSE LET hi == IF end # <<>> THEN Strptime(end) ELSE now
         IN  IF fn.start # Blank /\ DateGT(fn.start, hi)
             THEN Raise("InvalidInputError")
             ELSE Ok(FilterKeys(Keys(d), fn.start, hi))

\* inner that raises the not-found error when no key is within the bounds
InnerRaisesNotFound(d, fn, end, now) ==
    IF end # <<>> /\ Strptime(end) = NoDate THEN Raise("InvalidInputError")
    ELSE LET hi == IF end # <<>> THEN Strptime(end) ELSE now
         IN  IF fn.start # Blank /\ DateGT(fn.start, hi)
             THEN Raise("InvalidInputError")
             ELSE IF FilterKeys(Keys(d), fn.start, hi) = <<>>
             THEN Raise("TransactionNotFoundError")
             ELSE Ok(SortByDate(FilterKeys(Keys(d), fn.start, hi)))

\* inner that also rejects a start equal to the end, as its message words it
InnerRejectsEqual(d, fn, end, now) ==
    IF end # <<>> /\ Strptime(end) = NoDate THEN Raise("InvalidInputError")
    ELSE LET hi == IF end # <<>> THEN Strptime(end) ELSE now
         IN  IF fn.start # Blank /\ DateLE(hi, fn.start)
             THEN Raise("InvalidInputError")
             ELSE Ok(SortByDate(FilterKeys(Keys(d), fn.start, hi)))

\* get_transactions_by_date_range.inner
Inner(d, fn, end, now) ==
    IF end # <<>> /\ Strptime(end) = NoDate THEN Raise("InvalidInputError")
    ELSE LET hi == IF end # <<>> THEN Strptime(end) ELSE now
         IN  IF fn.start # Blank /\ DateGT(fn.start, hi)
             THEN Raise("InvalidInputError")
             ELSE IF ~KeysParse(Keys(d)) THEN Raise("ValueError")
             ELSE Ok(SortByDate(FilterKeys(Keys(d), fn.start, hi)))

\* show_transaction_by_date_range
ShowTransactionByDateRange(d, ks) ==
    IF ks = <<>> THEN [data |-> d, ret |-> Raise("TransactionNotFoundError")]
    ELSE LET d1 == TouchAll(d, ks)
         IN  [data |-> d1, ret |-> Ok(ShowRows(d1, ks))]

RECURSIVE RowsOfType(_, _)
RowsOfType(rows, ty) ==
    IF rows = <<>> THEN <<>>
    ELSE (IF Head(rows).t_type = ty THEN <<Head(rows)>> ELSE <<>>)
         \o RowsOfType(Tail(rows), ty)

RECURSIVE DatesWithType(_, _, _)
DatesWithType(d, ks, ty) ==
    IF ks = <<>> THEN <<>>
    ELSE (IF RowsOfType(Get(d, Head(ks)), ty) # <<>> THEN <<Head(ks)>> ELSE <<>>)
         \o DatesWithType(d, Tail(ks), ty)

\* show_transaction_income_by_range that prints every row of a selected date
ShowTransactionIncomeByRangeAllRows(d, ks) ==
    IF ks = <<>> THEN [data |-> d, ret |-> Raise("TransactionNotFoundError")]
    ELSE LET d1 == TouchAll(d, ks)
             fd == DatesWithType(d1, ks, "income")
         IN  IF fd = <<>>
             THEN [data |-> d1, ret |-> Raise("TransactionNotFoundError")]
             ELSE [data |-> d1, ret |-> Ok(ShowRows(d1, fd))]

\* show_transaction_income_by_range
ShowTransactionIncomeByRange(d, ks) ==
    IF ks = <<>> THEN [data |-> d, ret |-> Raise("TransactionNotFoundError")]
    ELSE LET d1 == TouchAll(d, ks)
             fd == DatesWithType(d1, ks, "income")
         IN  IF fd = <<>>
             THEN [data |-> d1, ret |-> Raise("TransactionNotFoundError")]
             ELSE [data |-> d1,
                   ret |-> Ok([i \in 1..Len(fd) |->
                               Shown(fd[i], RowsOfType(Get(d1, fd[i]), "income"))])]

\* show_transaction_expenses_by_range
ShowTransactionExpensesByRange(d, ks) ==
    IF ks = <<>> THEN [data |-> d, ret |-> Raise("TransactionNotFoundError")]
    ELSE LET d1 == TouchAll(d, ks)
             fd == DatesWithType(d1, ks, "expense")
         IN  IF fd = <<>>
             THEN [data |-> d1, ret |-> Raise("TransactionNotFoundError")]
             ELSE [data |-> d1,
                   ret |-> Ok([i \in 1..Len(fd) |->
                               Shown(fd[i], RowsOfType(Get(d1, fd[i]), "expense"))])]

RECURSIVE RowsOfCategory(_, _)
RowsOfCategory(rows, c) ==
    IF rows = <<>> THEN <<>>
    ELSE (IF Lower(Head(rows).category) = c THEN <<Head(rows)>> ELSE <<>>)
         \o RowsOfCategory(Tail(rows), c)

RECURSIVE DatesWithCategory(_, _, _)
DatesWithCategory(d, ks, c) ==
    IF ks = <<>> THEN <<>>
    ELSE (IF RowsOfCategory(Get(d, Head(ks)), c) # <<>> THEN <<Head(ks)>> ELSE <<>>)
         \o DatesWithCategory(d, Tail(ks), c)

\* show_transaction_by_category: dates are selected on category as passed,
\* rows are printed on category.strip().lower()
ShowTransactionByCategory(d, category, ks) ==
    IF category = None \/ Strip(category) = <<>>
    THEN [data |-> d, ret |-> Raise("InvalidInputError")]
    ELSE IF ks = <<>> THEN [data |-> d, ret |-> Raise("CategoryNotFoundError")]
    ELSE LET d1 == TouchAll(d, ks)
             fd == DatesWithCategory(d1, ks, category)
         IN  IF fd = <<>>
             THEN [data |-> d1, ret |-> Raise("TransactionNotFoundError")]
             ELSE [data |-> d1,
                   ret |-> Ok([i \in 1..Len(fd) |->
                               Shown(fd[i], RowsOfCategory(Get(d1, fd[i]),
                                                           Lower(Strip(category))))])]

\* sum(t["amount"] for t in rows if t["t_type"] == ty)
RECURSIVE SumOfType(_, _)
SumOfType(rows, ty) ==
    IF rows = <<>> THEN 0
    ELSE (IF Head(rows).t_type = ty THEN Head(rows).amount ELSE 0)
         + SumOfType(Tail(rows), ty)

RECURSIVE SumOverDates(_, _, _)
SumOverDates(d, ks, ty) ==
    IF ks = <<>> THEN 0
    ELSE SumOfType(Get(d, Head(ks)), ty) + SumOverDates(d, Tail(ks), ty)

\* show_total_type_by_range that sums every amount held under the selected dates
ShowTotalTypeByRangeAnyType(d, ty, ks) ==
    IF ks = <<>> THEN [data |-> d, ret |-> Raise("TransactionNotFoundError")]
    ELSE LET d1 == TouchAll(d, ks)
             fd == DatesWithType(d1, ks, ty)
         IN  IF fd = <<>>
             THEN [data |-> d1, ret |-> Raise("TransactionNotFoundError")]
             ELSE [data |-> d1,
                   ret |-> Ok(SumOverDates(d1, fd, "income")
                              + SumOverDates(d1, fd, "expense"))]

\* show_total_type_by_range
ShowTotalTypeByRange(d, ty, ks) ==
    IF ks = <<>> THEN [data |-> d, ret |-> Raise("TransactionNotFoundError")]
    ELSE LET d1 == TouchAll(d, ks)
             fd == DatesWithType(d1, ks, ty)
         IN  IF fd = <<>>
             THEN [data |-> d1, ret |-> Raise("TransactionNotFoundError")]
             ELSE [data |-> d1, ret |-> Ok(SumOverDates(d1, fd, ty))]

\* show_current_balance that adds the expenses instead of subtracting them
ShowCurrentBalanceAdds(d) ==
    Ok(SumOfType(Values(d), "income") + SumOfType(Values(d), "expense"))

\* show_current_balance
ShowCurrentBalance(d) ==
    LET transactions == Values(d)
    IN  Ok(SumOfType(transactions, "income") - SumOfType(transactions, "expense"))

\* show_transaction_by_date: the listed rows and the closure's captured state
ShowTransactionByDate(d, date) ==
    IF date = <<>> THEN Raise("DateNotFoundError")
    ELSE IF Strptime(date) = NoDate THEN Raise("InvalidInputError")
    ELSE LET iso == IsoFormat(Strptime(date))
             filtered == SelectSeqBy(Values(d), iso)
         IN  IF filtered = <<>> THEN Raise("TransactionNotFoundError")
             ELSE Ok([date |-> iso, list |-> filtered])

\* delete_transaction that leaves the emptied bucket under its key
DeleteTransactionNoPrune(d, cap, index) ==
    IF ~IsDigitStr(index)
    THEN [data |-> d, list |-> cap.list, ret |-> Raise("InvalidInputError")]
    ELSE IF ~(IntOfDigits(index) - 1 \in 0..(Len(cap.list) - 1))
    THEN [data |-> d, list |-> cap.list, ret |-> Raise("IndexError")]
    ELSE LET i       == IntOfDigits(index) - 1
             deleted == cap.list[i + 1]
             d1      == Touch(d, cap.date)
         IN  IF ~InList(Get(d1, cap.date), deleted)
             THEN [data |-> d1, list |-> ListPop(cap.list, i), ret |-> Raise("ValueError")]
             ELSE [data |-> Put(d1, cap.date, ListRemove(Get(d1, cap.date), deleted)),
                   list |-> ListPop(cap.list, i), ret |-> Ok(deleted)]

\* show_transaction_by_date.delete_transaction on the closure cap:
\* the dict, the closure's list and the outcome after the call
DeleteTransaction(d, cap, index) ==
    IF ~IsDigitStr(index)
    THEN [data |-> d, list |-> cap.list, ret |-> Raise("InvalidInputError")]
    ELSE IF ~(IntOfDigits(index) - 1 \in 0..(Len(cap.list) - 1))
    THEN [data |-> d, list |-> cap.list, ret |-> Raise("IndexError")]
    ELSE LET i       == IntOfDigits(index) - 1
             deleted == cap.list[i + 1]
             popped  == ListPop(cap.list, i)
             d1      == Touch(d, cap.date)
             bucket  == Get(d1, cap.date)
         IN  IF ~InList(bucket, deleted)
             THEN [data |-> d1, list |-> popped, ret |-> Raise("ValueError")]
             ELSE LET rest == ListRemove(bucket, deleted)
                  IN  [data |-> IF rest = <<>> THEN DelKey(d1, cap.date)
                                ELSE Put(d1, cap.date, rest),
                       list |-> popped, ret |-> Ok(deleted)]

\* to_dict: dict(self.data), the (key, list) items in the order of the keys
ToDict(d) == [i \in 1..Len(d) |-> <<d[i].k, d[i].v>>]

(***************************************************************************)
(* deserialize_transactions: every item of the snapshot goes through the   *)
(* five setters of a new TransactionFactory and then add_transaction.      *)
(* An item of json_data holds its t_type as the characters of the string   *)
(* and its amount as the string str(item["amount"]) gives, so that an item *)
(* may hold what no transaction of the ledger holds ("Income", "x", "").   *)
(***************************************************************************)
\* str(item["amount"]) for an amount held by the ledger
AmountStr(x) == IF x = NoAmount THEN <<"N", "o", "n", "e">> ELSE FloatStr(x)

\* the item of json_data for the transaction t of the ledger
ItemOf(t) ==
    [t_type |-> TypeChars(t.t_type), category |-> t.category,
     amount |-> AmountStr(t.amount), date |-> t.date,
     description |-> t.description]

\* json_data for a to_dict result: the same keys, every transaction as an item
JsonOf(snap) ==
    [i \in 1..Len(snap) |->
        <<snap[i][1], [j \in 1..Len(snap[i][2]) |-> ItemOf(snap[i][2][j])]>>]

\* the factory object filled from an item whose date is stored unvalidated
FactoryOfItemTrustsDate(item, now) ==
    LET r1 == FactoryTType(NewFactory, item.t_type)
        r2 == FactoryCategory(r1.b, item.category)
        r3 == FactoryAmount(r2.b, item.amount)
        r5 == FactoryDescription([r3.b EXCEPT !.date = item.date], item.description)
    IN  IF r1.ret.kind # "ok" THEN r1
        ELSE IF r2.ret.kind # "ok" THEN r2
        ELSE IF r3.ret.kind # "ok" THEN r3
        ELSE r5

\* the factory object filled from one item, or the first error a setter raises
FactoryOfItem(item, now) ==
    LET r1 == FactoryTType(NewFactory, item.t_type)
        r2 == FactoryCategory(r1.b, item.category)
        r3 == FactoryAmount(r2.b, item.amount)
        r4 == FactoryDate(r3.b, item.date, now)
        r5 == FactoryDescription(r4.b, item.description)
    IN  IF r1.ret.kind # "ok" THEN r1
        ELSE IF r2.ret.kind # "ok" THEN r2
        ELSE IF r3.ret.kind # "ok" THEN r3
        ELSE IF r4.ret.kind # "ok" THEN r4
        ELSE r5

\* the items of a snapshot, key by key, in the order of the keys
RECURSIVE SnapshotItems(_)
SnapshotItems(snap) ==
    IF snap = <<>> THEN <<>> ELSE Head(snap)[2] \o SnapshotItems(Tail(snap))

RECURSIVE AddItems(_, _, _)
AddItems(d, items, now) ==
    IF items = <<>> THEN [data |-> d, ret |-> Ok(<<>>)]
    ELSE LET r == FactoryOfItem(Head(items), now)
         IN  IF r.ret.kind # "ok" THEN [data |-> d, ret |-> r.ret]
             ELSE AddItems(AddTransaction(d, r.b), Tail(items), now)

\* deserialize_transactions(json_data, manager) for a manager holding d
DeserializeTransactions(snap, d, now) == AddItems(d, SnapshotItems(snap), now)

(***************************************************************************)
(* The state machine: one action per public operation of the manager.      *)
(*   data    : TransactionDictManager.data                                 *)
(*   caps    : the live delete_transaction closures (date, filtered list)  *)
(*   rangeFn : the live closure returned by get_transactions_by_date_range *)
(*   builder : the fields of the TransactionFactory object being filled     *)
(*   run     : main(): the prompt it waits at (pc), the content of the     *)
(*             JSON file (file) and whether write_json has run (saved),    *)
(*             json_content as read at the start (content),                *)
(*             how the run ended (how), the menu option (sel) and the      *)
(*             category (category) of the query in progress, and the       *)
(*             transactions the delete flow removed (deleted)              *)
(*   last    : the latest call, its arguments and its outcome              *)
(***************************************************************************)
NoCap == [date |-> Blank, list |-> <<>>]

\* main() before its first statement, the file holding no snapshot
NoRun ==
    [pc |-> "start", file |-> <<>>, content |-> <<>>, saved |-> FALSE, how |-> "",
     sel |-> "", category |-> <<>>, deleted |-> {}]

Call(op, args, ret) == [op |-> op, args |-> args, ret |-> ret]

Init ==
    /\ data = <<>>
    /\ caps = [c \in 1..NCaps |-> NoCap]
    /\ rangeFn = <<>>
    /\ builder = NewFactory
    /\ run = NoRun
    /\ last = Call("init", <<>>, Ok(<<>>))

\* add_transaction of a factory filled from the given inputs
Add(max, tys, cs, as, dss) ==
    \E ty \in tys, c \in cs, a \in as, ds \in dss, desc \in Descriptions, now \in Clock :
        /\ Len(Values(data)) < max
        /\ SetDate(ds, now).kind = "ok"
        /\ LET f == Factory(ty, c, a, ds, desc, now)
           IN  /\ data' = AddTransaction(data, f)
               /\ last' = Call("add", <<f>>, Ok(<<>>))
        /\ UNCHANGED <<caps, rangeFn, builder, run>>

ShowAll ==
    LET r == ShowAllTransactionsForAllTime(data)
    IN  /\ data' = r.data
        /\ last' = Call("show_all", <<>>, r.ret)
        /\ UNCHANGED <<caps, rangeFn, builder, run>>

BindStart(dss) ==
    \E start \in dss :
        LET r == GetTransactionsByDateRange(start)
        IN  /\ rangeFn' = IF r.kind = "ok" THEN <<r.val>> ELSE rangeFn
            /\ last' = Call("bind_start", <<start>>, r)
            /\ UNCHANGED <<data, caps, builder, run>>

Resolve(dss) ==
    \E end \in dss, now \in Clock :
        /\ rangeFn # <<>>
        /\ last' = Call("resolve", <<rangeFn[1].start, end, now>>,
                        Inner(data, rangeFn[1], end, now))
        /\ UNCHANGED <<data, caps, rangeFn, builder, run>>

ShowRange(kls) ==
    \E ks \in kls :
        LET r == ShowTransactionByDateRange(data, ks)
        IN  /\ data' = r.data
            /\ last' = Call("show_range", <<ks>>, r.ret)
            /\ UNCHANGED <<caps, rangeFn, builder, run>>

ShowIncome(kls) ==
    \E ks \in kls :
        LET r == ShowTransactionIncomeByRange(data, ks)
        IN  /\ data' = r.data
            /\ last' = Call("show_income", <<ks>>, r.ret)
            /\ UNCHANGED <<caps, rangeFn, builder, run>>

ShowExpenses(kls) ==
    \E ks \in kls :
        LET r == ShowTransactionExpensesByRange(data, ks)
        IN  /\ data' = r.data
            /\ last' = Call("show_expenses", <<ks>>, r.ret)
            /\ UNCHANGED <<caps, rangeFn, builder, run>>

ShowCategory(cs, kls) ==
    \E c \in cs, ks \in kls :
        LET r == ShowTransactionByCategory(data, c, ks)
        IN  /\ data' = r.data
            /\ last' = Call("show_category", <<c, ks>>, r.ret)
            /\ UNCHANGED <<caps, rangeFn, builder, run>>

ShowTotal(tys, kls) ==
    \E ty \in tys, ks \in kls :
        LET r == ShowTotalTypeByRange(data, ty, ks)
        IN  /\ data' = r.data
            /\ last' = Call("show_total", <<ty, ks>>, r.ret)
            /\ UNCHANGED <<caps, rangeFn, builder, run>>

ShowBalance ==
    /\ last' = Call("show_balance", <<>>, ShowCurrentBalance(data))
    /\ UNCHANGED <<data, caps, rangeFn, builder, run>>

\* show_transaction_by_date, the closure it returns kept in slot c
ShowByDate(dss, slots) ==
    \E date \in dss, c \in slots :
        LET r == ShowTransactionByDate(data, date)
        IN  /\ caps' = IF r.kind = "ok" THEN [caps EXCEPT ![c] = r.val] ELSE caps
            /\ last' = Call("show_by_date", <<date, c>>, r)
            /\ UNCHANGED <<data, rangeFn, builder, run>>

\* a call of the closure kept in slot c
DeleteAt(slots, idxs) ==
    \E c \in slots, index \in idxs :
        /\ caps[c] # NoCap
        /\ LET r == DeleteTransaction(data, caps[c], index)
           IN  /\ data' = r.data
               /\ caps' = [caps EXCEPT ![c].list = r.list]
               /\ last' = Call("delete_at", <<c, index>>, r.ret)
        /\ UNCHANGED <<rangeFn, builder, run>>

Snapshot ==
    /\ last' = Call("to_dict", <<>>, Ok(ToDict(data)))
    /\ UNCHANGED <<data, caps, rangeFn, builder, run>>

\* to_dict, and deserialize_transactions of its result into a new manager:
\* the outcome holds the data of that manager
Reload(clock) ==
    \E now \in clock :
        LET r == DeserializeTransactions(JsonOf(ToDict(data)), <<>>, now)
        IN  /\ last' = Call("from_snapshot", <<ToDict(data)>>,
                            IF r.ret.kind = "ok" THEN Ok(r.data) ELSE r.ret)
            /\ UNCHANGED <<data, caps, rangeFn, builder, run>>

\* deserialize_transactions(snap, manager) for snapshots that may hold
\* records no add_transaction stored
Load(max, snaps, clock) ==
    \E snap \in snaps, now \in clock :
        /\ Len(Values(data)) + Len(SnapshotItems(snap)) <= max
        /\ LET r == DeserializeTransactions(snap, data, now)
           IN  /\ data' = r.data
               /\ last' = Call("deserialize", <<snap, now>>, r.ret)
        /\ UNCHANGED <<caps, rangeFn, builder, run>>

\* TransactionFactory()
Construct ==
    /\ builder' = NewFactory
    /\ last' = Call("new", <<>>, Ok(<<>>))
    /\ UNCHANGED <<data, caps, rangeFn, run>>

SetTType(ss) ==
    \E s \in ss :
        LET r == FactoryTType(builder, s)
        IN  /\ builder' = r.b
            /\ last' = Call("set_t_type", <<s>>, r.ret)
            /\ UNCHANGED <<data, caps, rangeFn, run>>

SetCategory(ss) ==
    \E s \in ss :
        LET r == FactoryCategory(builder, s)
        IN  /\ builder' = r.b
            /\ last' = Call("set_category", <<s>>, r.ret)
            /\ UNCHANGED <<data, caps, rangeFn, run>>

SetAmount(ss) ==
    \E s \in ss :
        LET r == FactoryAmount(builder, s)
        IN  /\ builder' = r.b
            /\ last' = Call("set_amount", <<s>>, r.ret)
            /\ UNCHANGED <<data, caps, rangeFn, run>>

SetDateStr(ss, clock) ==
    \E s \in ss, now \in clock :
        LET r == FactoryDate(builder, s, now)
        IN  /\ builder' = r.b
            /\ last' = Call("set_date", <<s, now>>, r.ret)
            /\ UNCHANGED <<data, caps, rangeFn, run>>

SetDescription(ss) ==
    \E s \in ss :
        LET r == FactoryDescription(builder, s)
        IN  /\ builder' = r.b
            /\ last' = Call("set_description", <<s>>, r.ret)
            /\ UNCHANGED <<data, caps, rangeFn, run>>

\* add_transaction of the factory object as it stands
AddBuilt(max) ==
    /\ Len(Values(data)) < max
    /\ data' = AddTransaction(data, builder)
    /\ last' = Call("add", <<builder>>, Ok(<<>>))
    /\ UNCHANGED <<caps, rangeFn, builder, run>>

(***************************************************************************)
(* Spec: add and delete, with several delete closures alive at once.       *)
(***************************************************************************)
SpecDates == {D0101, D0102}

SpecKeyLists == {<<>>, <<D0101>>, <<D0102>>}

Next ==
    \/ Add(MaxTx, Types, {Food}, {5}, SpecDates)
    \/ ShowByDate({D0101, D12}, 1..NCaps)
    \/ DeleteAt(1..NCaps, {<<"1">>, <<"2">>, <<"x">>})

Spec == Init /\ [][Next]_vars

(***************************************************************************)
(* SpecReads: every operation of the manager, one delete closure.          *)
(***************************************************************************)
NextReads ==
    \/ Add(MaxTx, Types, {Food}, {5}, SpecDates)
    \/ ShowAll
    \/ BindStart({Blank, D0102})
    \/ Resolve({Blank, D0101})
    \/ ShowRange(SpecKeyLists)
    \/ ShowIncome(SpecKeyLists)
    \/ ShowExpenses(SpecKeyLists)
    \/ ShowCategory({food}, SpecKeyLists)
    \/ ShowTotal(Types, SpecKeyLists)
    \/ ShowBalance
    \/ ShowByDate(SpecDates, {1})
    \/ DeleteAt({1}, {<<"1">>, <<"2">>})
    \/ Snapshot

SpecReads == Init /\ [][NextReads]_vars

(***************************************************************************)
(* SpecLedger: adds of both types and several amounts, one delete closure  *)
(* called with every index string, and the balance.                        *)
(***************************************************************************)
NextLedger ==
    \/ Add(MaxTx, Types, {Food}, Amounts, SpecDates)
    \/ ShowByDate(SpecDates, {1})
    \/ DeleteAt({1}, IndexStrs)
    \/ ShowBalance

SpecLedger == Init /\ [][NextLedger]_vars

(***************************************************************************)
(* SpecRange: the two-phase date range resolution over ledgers whose keys  *)
(* are entered in any order, zero-padded or not.                           *)
(***************************************************************************)
NextRange ==
    \/ Add(MaxRangeTx, {"income"}, {Food}, {5}, {D0101, D0102, D12, D0501, DBad})
    \/ BindStart(DateStrs)
    \/ Resolve(DateStrs)

SpecRange == Init /\ [][NextRange]_vars

(***************************************************************************)
(* SpecCategory: the category filter over ledgers of mixed categories.     *)
(***************************************************************************)
NextCategory ==
    \/ Add(MaxTx, Types, Categories, {5}, SpecDates)
    \/ ShowCategory(CategoryArgs, KeyListsOf(SpecDates))

SpecCategory == Init /\ [][NextCategory]_vars

(***************************************************************************)
(* SpecFilter: the type filters and the total by type over ledgers of both *)
(* types and several amounts, with sorted_dates of none, one or two keys,  *)
(* in either order or the same key twice.                                  *)
(***************************************************************************)
FilterKeyLists ==
    {<<>>, <<D0101>>, <<D0102>>, <<D0101, D0102>>, <<D0102, D0101>>, <<D0102, D0102>>}

NextFilter ==
    \/ Add(MaxFilterTx, {"income"}, {Food}, Amounts, SpecDates)
    \/ Add(MaxFilterTx, {"expense"}, {Food}, {2}, SpecDates)
    \/ ShowIncome(FilterKeyLists)
    \/ ShowExpenses(FilterKeyLists)
    \/ ShowTotal(Types, FilterKeyLists)

SpecFilter == Init /\ [][NextFilter]_vars

(***************************************************************************)
(* SpecOnDate: show_transaction_by_date with every date string, over       *)
(* ledgers whose dates were typed zero-padded or not.                      *)
(***************************************************************************)
NextOnDate ==
    \/ Add(MaxTx, Types, {Food}, {5}, {D0101, D0102, D12})
    \/ ShowByDate(DateStrs \cup {<<" ">>}, {1})

SpecOnDate == Init /\ [][NextOnDate]_vars

(***************************************************************************)
(* SpecSnapshot: add and delete with several delete closures alive, and    *)
(* the snapshot of the ledger loaded into a new manager.                   *)
(***************************************************************************)
NextSnapshot ==
    \/ Add(MaxTx, Types, {Food}, {5}, {D0101, D12})
    \/ ShowByDate({D0101}, 1..NCaps)
    \/ DeleteAt(1..NCaps, {<<"1">>})
    \/ Snapshot
    \/ Reload(Clock)

SpecSnapshot == Init /\ [][NextSnapshot]_vars

(***************************************************************************)
(* SpecFactory: the setters of one TransactionFactory, called in any order *)
(* and any number of times with accepted and rejected strings.             *)
(***************************************************************************)
NextFactory ==
    \/ Construct
    \/ SetTType(TypeStrs)
    \/ SetCategory(CategoryStrs)
    \/ SetAmount(AmountStrs)
    \/ SetDateStr(FactoryDateStrs, Clock)
    \/ SetDescription(DescriptionStrs)

SpecFactory == Init /\ [][NextFactory]_vars

(***************************************************************************)
(* SpecFactoryAdd: a TransactionFactory handed to add_transaction after    *)
(* any of its setters, or none, were called.                               *)
(***************************************************************************)
NextFactoryAdd ==
    \/ Construct
    \/ SetTType({IncomeStr})
    \/ SetCategory({Food})
    \/ SetAmount({<<"5">>})
    \/ SetDateStr({D0101, Blank}, {<<2024, 1, 1>>})
    \/ SetDescription({<<"x">>})
    \/ AddBuilt(MaxBuilt)

SpecFactoryAdd == Init /\ [][NextFactoryAdd]_vars

(***************************************************************************)
(* Properties.                                                             *)
(***************************************************************************)
\* number of transactions under key k (0 when k is no key)
BucketLen(d, k) == IF HasKey(d, k) THEN Len(Get(d, k)) ELSE 0

KeySet(d) == {d[i].k : i \in 1..Len(d)}

\* C1: in every reachable state every date key of the ledger maps to a
\* non-empty sequence of transactions.
C1_EveryKeyNonEmpty == \A i \in 1..Len(data) : data[i].v # <<>>

\* C2: the ledger's keys and buckets are changed only by add and by deleteAt;
\* every other operation leaves data as it was, whatever its arguments.
C2_OnlyAddAndDeleteChangeData ==
    [][last'.op \notin {"add", "delete_at"} => data' = data]_vars

\* C3: a successful deleteAt shortens its date's bucket by exactly one and the
\* ledger by exactly one transaction, leaves every other date's bucket as it
\* was, and when the bucket held one transaction the key is gone and
\* transactionsOnDate on that date then fails with TransactionNotFound.
C3_DeleteRemovesExactlyOne ==
    [][(last'.op = "delete_at" /\ last'.ret.kind = "ok") =>
        LET date == caps[last'.args[1]].date
        IN  /\ BucketLen(data', date) = BucketLen(data, date) - 1
            /\ Len(Values(data')) = Len(Values(data)) - 1
            /\ \A k \in (KeySet(data) \cup KeySet(data')) \ {date} :
                   /\ HasKey(data, k) /\ HasKey(data', k)
                   /\ Get(data', k) = Get(data, k)
            /\ BucketLen(data, date) = 1 =>
                   /\ ~HasKey(data', date)
                   /\ ShowTransactionByDate(data', date).kind
                          = "TransactionNotFoundError"]_vars

\* C3 witness: a deleteAt has succeeded on the last transaction of its date
\* while another date still holds transactions.
C3_Witness ==
    /\ last.op = "delete_at"
    /\ last.ret.kind = "ok"
    /\ ~HasKey(data, last.ret.val.date)
    /\ Values(data) # <<>>

\* C4: a deleteAt that fails, for whatever reason, leaves the ledger and the
\* closure's bound list exactly as they were before the call.
C4_FailedDeleteChangesNothing ==
    [][(last'.op = "delete_at" /\ last'.ret.kind # "ok") =>
        (data' = data /\ caps' = caps)]_vars

\* a string that denotes an integer: an optional sign, then digits
DenotesInt(s) ==
    \/ IsDigitStr(s)
    \/ Len(s) >= 2 /\ s[1] \in {"-", "+"} /\ IsDigitStr(Tail(s))

IntValue(s) ==
    IF IsDigitStr(s) THEN IntOfDigits(s)
    ELSE IF s[1] = "-" THEN 0 - IntOfDigits(Tail(s)) ELSE IntOfDigits(Tail(s))

\* C5: deleteAt fails with InvalidInput on every index string that denotes no
\* integer, fails with an out-of-range error kind of the application's own
\* taxonomy (common base FinanceTrackerError) on every integer outside
\* 1..len(bound list), 0 and negative integers included, and accepts every
\* integer inside 1..len(bound list).
C5_IndexClassification ==
    [][last'.op = "delete_at" =>
        LET idx == last'.args[2]
            n   == Len(caps[last'.args[1]].list)
            k   == last'.ret.kind
        IN  /\ ~DenotesInt(idx) => k = "InvalidInputError"
            /\ (DenotesInt(idx) /\ IntValue(idx) \notin 1..n) =>
                   /\ k \notin {"ok", "InvalidInputError"}
                   /\ ErrorBase(k) = "FinanceTrackerError"
            /\ (DenotesInt(idx) /\ IntValue(idx) \in 1..n) =>
                   k \notin {"InvalidInputError", "IndexError"}]_vars

\* the sum of the amounts of the transactions of type ty at the positions P
\* of the ledger d, a position being <<entry, index in its bucket>>
RECURSIVE SumAt(_, _, _)
SumAt(d, P, ty) ==
    IF P = {} THEN 0
    ELSE LET p == CHOOSE q \in P : TRUE
             t == d[p[1]].v[p[2]]
         IN  (IF t.t_type = ty THEN t.amount ELSE 0) + SumAt(d, P \ {p}, ty)

Positions(d) == UNION {{<<i, j>> : j \in 1..Len(d[i].v)} : i \in 1..Len(d)}

\* C6: the balance shown is the sum of the amounts of all income transactions
\* in the ledger minus the sum of the amounts of all expense transactions,
\* over all dates; for an empty ledger it is 0 and no error is raised.
C6_BalanceIsIncomeMinusExpense ==
    last.op = "show_balance" =>
        /\ last.ret.kind = "ok"
        /\ last.ret.val = SumAt(data, Positions(data), "income")
                          - SumAt(data, Positions(data), "expense")
        /\ data = <<>> => last.ret.val = 0

\* C6 witness: the balance was shown for a ledger holding an income of 5 and
\* an expense of 2.
C6_Witness ==
    /\ last.op = "show_balance"
    /\ last.ret.val = 3
    /\ SumAt(data, Positions(data), "income") = 5
    /\ SumAt(data, Positions(data), "expense") = 2

\* the upper bound a resolve call used: the parsed end, today when end is blank
UpperBound(end, now) == IF end = Blank THEN now ELSE Strptime(end)

\* the key k lies within the bounds (lo is Blank when no start was bound)
InBounds(k, lo, hi) ==
    /\ lo = Blank \/ DateLE(lo, Strptime(k))
    /\ DateLE(Strptime(k), hi)

\* the bounds are the ones resolve accepts
ValidBounds(lo, end, now) ==
    /\ end = Blank \/ Strptime(end) # NoDate
    /\ lo = Blank \/ DateLE(lo, UpperBound(end, now))

\* C7: for valid bounds resolve returns exactly the ledger's keys d with
\* start <= d <= end (d <= end when the start was blank; end is today when
\* the end string is blank), each once, in ascending chronological order.
C7_ResolveReturnsKeysInBounds ==
    last.op = "resolve" =>
        LET lo == last.args[1]
            hi == UpperBound(last.args[2], last.args[3])
            D  == last.ret.val
        IN  ValidBounds(lo, last.args[2], last.args[3]) =>
                /\ last.ret.kind = "ok"
                /\ {D[i] : i \in 1..Len(D)} = {k \in KeySet(data) : InBounds(k, lo, hi)}
                /\ \A i, j \in 1..Len(D) : i # j => D[i] # D[j]
                /\ \A i, j \in 1..Len(D) :
                       i < j => DateLE(Strptime(D[i]), Strptime(D[j]))

\* C7 witness: a resolve with both bounds returned two keys that were entered
\* in the opposite order and left out a third key of the ledger.
C7_Witness ==
    /\ last.op = "resolve"
    /\ last.ret.kind = "ok"
    /\ last.args[1] # Blank
    /\ last.args[2] # Blank
    /\ Len(last.ret.val) = 2
    /\ Len(data) = 3
    /\ last.ret.val[1] # last.ret.val[2]
    /\ IndexOfKey(data, last.ret.val[1]) > IndexOfKey(data, last.ret.val[2])

NotFoundErrors ==
    {"TransactionNotFoundError", "CategoryNotFoundError", "DateNotFoundError"}

RECURSIVE RowsMatching(_, _)
RowsMatching(rows, c) ==
    IF rows = <<>> THEN <<>>
    ELSE (IF Lower(Head(rows).category) = Lower(c) THEN <<Head(rows)>> ELSE <<>>)
         \o RowsMatching(Tail(rows), c)

\* the dates of ks, in order, that hold a transaction matching c
RECURSIVE DatesMatching(_, _, _)
DatesMatching(d, ks, c) ==
    IF ks = <<>> THEN <<>>
    ELSE (IF HasKey(d, Head(ks)) /\ RowsMatching(Get(d, Head(ks)), c) # <<>>
          THEN <<Head(ks)>> ELSE <<>>) \o DatesMatching(d, Tail(ks), c)

\* C10: for a non-blank category c, in whatever letter case, and non-empty
\* dateKeys, filterByCategory selects a date of dateKeys if and only if it
\* holds a transaction of either type whose category equals c ignoring
\* case, and shows for it exactly the transactions matching c ignoring case.
C10_CategoryMatchIgnoresCase ==
    (last.op = "show_category" /\ Strip(last.args[1]) # <<>> /\ last.args[2] # <<>>) =>
        LET c      == last.args[1]
            wanted == DatesMatching(data, last.args[2], c)
        IN  IF wanted = <<>> THEN last.ret.kind = "TransactionNotFoundError"
            ELSE /\ last.ret.kind = "ok"
                 /\ last.ret.val = [i \in 1..Len(wanted) |->
                                    Shown(wanted[i], RowsMatching(Get(data, wanted[i]), c))]

\* C11: filterByCategory reports, in this precedence: InvalidInput for a blank
\* category (empty or only whitespace), even when dateKeys is empty; otherwise
\* CategoryNotFound for an empty dateKeys; otherwise TransactionNotFound when
\* no date of dateKeys holds a transaction whose category matches ignoring
\* case; otherwise it succeeds.
C11_CategoryErrorPrecedence ==
    last.op = "show_category" =>
        LET c  == last.args[1]
            ks == last.args[2]
        IN  last.ret.kind =
                IF c = None \/ Strip(c) = <<>> THEN "InvalidInputError"
                ELSE IF ks = <<>> THEN "CategoryNotFoundError"
                ELSE IF DatesMatching(data, ks, c) = <<>>
                     THEN "TransactionNotFoundError"
                ELSE "ok"

\* the key k of the ledger d holds a transaction of type ty
HoldsType(d, k, ty) ==
    HasKey(d, k) /\ \E i \in 1..Len(Get(d, k)) : Get(d, k)[i].t_type = ty

\* C12: filterByType selects exactly the dates of dateKeys that hold at least
\* one transaction of the type, in the order of dateKeys, and shows for each
\* only its transactions of that type, in their order; it fails with
\* TransactionNotFound when dateKeys is empty or no date is selected.
C12_FilterByType ==
    last.op \in {"show_income", "show_expenses"} =>
        LET ty     == IF last.op = "show_income" THEN "income" ELSE "expense"
            ks     == last.args[1]
            wanted == SelectSeq(ks, LAMBDA k : HoldsType(data, k, ty))
        IN  IF wanted = <<>> THEN last.ret.kind = "TransactionNotFoundError"
            ELSE last.ret =
                     Ok([i \in 1..Len(wanted) |->
                         Shown(wanted[i],
                               SelectSeq(Get(data, wanted[i]),
                                         LAMBDA t : t.t_type = ty))])

\* C12 witness: of two dates passed, the filter selected the second only and
\* showed fewer rows than the date holds.
C12_Witness ==
    /\ last.op \in {"show_income", "show_expenses"}
    /\ last.ret.kind = "ok"
    /\ Len(last.args[1]) = 2
    /\ Len(last.ret.val) = 1
    /\ last.ret.val[1].date = last.args[1][2]
    /\ last.args[1][1] # last.args[1][2]
    /\ Len(last.ret.val[1].rows) < Len(Get(data, last.ret.val[1].date))

\* no key occurs twice in ks
NoRepeat(ks) == \A i, j \in 1..Len(ks) : i # j => ks[i] # ks[j]

\* the positions of the ledger d that lie under a key of ks
PositionsUnder(d, ks) == {p \in Positions(d) : InList(ks, d[p[1]].k)}

\* C13: for a dateKeys without repeated keys, totalByType gives the sum of
\* the amounts of exactly the transactions of the type stored under the dates
\* of dateKeys; it fails with TransactionNotFound when dateKeys is empty or
\* holds no transaction of the type.
C13_TotalByType ==
    (last.op = "show_total" /\ NoRepeat(last.args[2])) =>
        LET ty == last.args[1]
            P  == PositionsUnder(data, last.args[2])
        IN  IF \A p \in P : data[p[1]].v[p[2]].t_type # ty
            THEN last.ret.kind = "TransactionNotFoundError"
            ELSE last.ret = Ok(SumAt(data, P, ty))

\* C13 witness: a total was given for one date that also holds a transaction
\* of the other type, while the type has a transaction on a date not passed.
C13_Witness ==
    /\ last.op = "show_total"
    /\ last.ret.kind = "ok"
    /\ Len(last.args[2]) = 1
    /\ HoldsType(data, last.args[2][1], "income")
    /\ HoldsType(data, last.args[2][1], "expense")
    /\ \E i \in 1..Len(data) :
           data[i].k # last.args[2][1] /\ HoldsType(data, data[i].k, last.args[1])

\* the transactions of the ledger d, in their order, whose date is the
\* calendar day dt
OnDay(d, dt) == SelectSeq(Values(d), LAMBDA t : Strptime(t.date) = dt)

\* C14: transactionsOnDate fails with DateNotFound on a blank date, with
\* InvalidInput on a non-blank string that is no valid YYYY-MM-DD date and
\* with TransactionNotFound when the ledger holds no transaction on that date;
\* otherwise it yields all and only the transactions of that date, in
\* insertion order, with a deletion capability bound to that date and list.
C14_TransactionsOnDate ==
    last.op = "show_by_date" =>
        LET s == last.args[1]
        IN  IF s = Blank THEN last.ret.kind = "DateNotFoundError"
            ELSE IF Strptime(s) = NoDate THEN last.ret.kind = "InvalidInputError"
            ELSE IF OnDay(data, Strptime(s)) = <<>>
                 THEN last.ret.kind = "TransactionNotFoundError"
            ELSE /\ last.ret.kind = "ok"
                 /\ last.ret.val.list = OnDay(data, Strptime(s))
                 /\ Strptime(last.ret.val.date) = Strptime(s)
                 /\ caps[last.args[2]] = last.ret.val

\* the transaction add_transaction stores for the factory object f
Stored(f) ==
    [t_type |-> f.t_type, category |-> f.category, amount |-> f.amount,
     date |-> f.date,
     description |-> IF f.description = None THEN <<"-">> ELSE f.description]

\* C15: add appends the transaction at the end of the sequence keyed by its
\* date, creating the key if absent and keeping the order of the keys and of
\* the sequence; an identical transaction already stored does not prevent
\* it; the sequences of all other dates are unchanged.
C15_AddAppends ==
    [][last'.op = "add" =>
        LET f == last'.args[1]
            k == f.date
        IN  /\ HasKey(data', k)
            /\ Get(data', k) =
                   (IF HasKey(data, k) THEN Get(data, k) ELSE <<>>) \o <<Stored(f)>>
            /\ Keys(data') = IF HasKey(data, k) THEN Keys(data)
                             ELSE Append(Keys(data), k)
            /\ \A k2 \in KeySet(data) \ {k} : Get(data', k2) = Get(data, k2)
            /\ Len(Values(data')) = Len(Values(data)) + 1]_vars

\* C15 witness: an add has just stored, behind it, a second copy of a
\* transaction its date already held.
C15_Witness ==
    /\ last.op = "add"
    /\ LET b == Get(data, last.args[1].date)
       IN  /\ Len(b) = 2
           /\ b[1] = b[2]
           /\ b[2] = Stored(last.args[1])

\* the string s is a calendar date in the zero-padded YYYY-MM-DD form
Canonical(s) == Strptime(s) # NoDate /\ IsoFormat(Strptime(s)) = s

\* C18: every date key of the ledger and the date of every stored
\* transaction is a valid calendar date in the zero-padded YYYY-MM-DD form,
\* and no two distinct keys denote the same calendar day.
C18_DatesCanonical ==
    /\ \A i \in 1..Len(data) : Canonical(data[i].k)
    /\ \A i \in 1..Len(Values(data)) : Canonical(Values(data)[i].date)
    /\ \A i, j \in 1..Len(data) :
           Strptime(data[i].k) = Strptime(data[j].k) => i = j

\* C16: for every ledger L reached by add and deleteAt calls, loading
\* toSnapshot(L) through fromSnapshot into an empty ledger succeeds and gives
\* a ledger with the same set of date keys and, under every key, the same
\* transactions in the same order with the same field values.
C16_RoundTrip ==
    last.op = "from_snapshot" =>
        /\ last.ret.kind = "ok"
        /\ KeySet(last.ret.val) = KeySet(data)
        /\ \A k \in KeySet(data) : Get(last.ret.val, k) = Get(data, k)

\* C17: no partially constructed transaction enters the ledger: every stored
\* transaction has type income or expense, a non-blank category, an amount
\* that is a number >= 0, a valid date (the default date when the date setter
\* was never called) and a description that is a string, whatever setters
\* were called on the builder before add.
C17_StoredTransactionsComplete ==
    \A i \in 1..Len(Values(data)) :
        LET t == Values(data)[i]
        IN  /\ t.t_type \in Types
            /\ t.category # None /\ Strip(t.category) # <<>>
            /\ t.amount # NoAmount /\ FloatGE(t.amount, 0)
            /\ t.date # None /\ Strptime(t.date) # NoDate
            /\ t.description # None

\* C19: setAmount fails with EmptyInput on a blank string, fails with
\* InvalidInput on a string that parses to no number or to a negative one,
\* and otherwise stores the parsed number, zero included; after every
\* successful setAmount the amount held is >= 0.
C19_SetAmount ==
    last.op = "set_amount" =>
        LET s == last.args[1]
        IN  /\ last.ret.kind =
                   IF s = None \/ Strip(s) = <<>> THEN "EmptyInputError"
                   ELSE IF FloatOf(s).kind # "ok" THEN "InvalidInputError"
                   ELSE IF FloatLT(FloatOf(s).val, 0) THEN "InvalidInputError"
                   ELSE "ok"
            /\ last.ret.kind = "ok" =>
                   /\ builder.amount = FloatOf(s).val
                   /\ FloatGE(builder.amount, 0)

SetterOps ==
    {"set_t_type", "set_category", "set_amount", "set_date", "set_description"}

\* the field a setter writes
FieldOf(op) ==
    CASE op = "set_t_type" -> "t_type"
      [] op = "set_category" -> "category"
      [] op = "set_amount" -> "amount"
      [] op = "set_date" -> "date"
      [] op = "set_description" -> "description"

\* the value a successful call of the setter op gives its field
GivenValue(op, args) ==
    CASE op = "set_t_type" -> TypeName(args[1])
      [] op = "set_category" -> args[1]
      [] op = "set_amount" -> FloatOf(args[1]).val
      [] op = "set_date" -> IF args[1] = None \/ Strip(args[1]) = <<>>
                            THEN IsoFormat(args[2]) ELSE args[1]
      [] op = "set_description" -> args[1]

\* the outcome of the setter op called on a new factory object
OutcomeOnNew(op, args) ==
    CASE op = "set_t_type" -> FactoryTType(NewFactory, args[1]).ret
      [] op = "set_category" -> FactoryCategory(NewFactory, args[1]).ret
      [] op = "set_amount" -> FactoryAmount(NewFactory, args[1]).ret
      [] op = "set_date" -> FactoryDate(NewFactory, args[1], args[2]).ret
      [] op = "set_description" -> FactoryDescription(NewFactory, args[1]).ret

\* C20: the builder has no ordering state machine: whatever was called
\* before, a setter call has the outcome it has on a new builder; a setter
\* changes no field other than its own; a successful call leaves in its
\* field the value given, replacing the one held; a call that fails with
\* EmptyInput or InvalidInput leaves every field, its own included, as it was.
C20_SettersIndependent ==
    [][last'.op \in SetterOps =>
        LET op == last'.op
        IN  /\ last'.ret.kind \in {"ok", "EmptyInputError", "InvalidInputError"}
            /\ last'.ret = OutcomeOnNew(op, last'.args)
            /\ \A f \in DOMAIN builder : f # FieldOf(op) => builder'[f] = builder[f]
            /\ last'.ret.kind = "ok" => builder'[FieldOf(op)] = GivenValue(op, last'.args)
            /\ last'.ret.kind # "ok" => builder' = builder]_vars

\* C20 witness: a setAmount call has just been rejected on a builder whose
\* amount had been set after its date and before its type, and the amount and
\* the other fields are still held.
C20_Witness ==
    /\ last.op = "set_amount"
    /\ last.ret.kind = "InvalidInputError"
    /\ builder.amount = 125
    /\ builder.t_type = "expense"
    /\ builder.date = D12
    /\ builder.category = None

(***************************************************************************)
(* Loading snapshots of one or two records whose fields may be blank or    *)
(* invalid.                                                                *)
(***************************************************************************)
MaxLoad == 2

LoadItem(ty, c, a, ds) ==
    [t_type |-> ty, category |-> c, amount |-> a, date |-> ds, description |-> <<>>]

\* one field at a time off a record that passes, then several at once
LoadItems ==
    {LoadItem(ty, Food, <<"5", ".", "0">>, D0101) : ty \in {IncomeStr, <<"x">>, <<>>}}
    \cup {LoadItem(IncomeStr, c, <<"5", ".", "0">>, D0101) : c \in {Food, <<" ">>}}
    \cup {LoadItem(IncomeStr, Food, a, D0101) :
              a \in {<<"-", "5", ".", "0">>, <<"x">>, <<>>, <<"N", "o", "n", "e">>}}
    \cup {LoadItem(IncomeStr, Food, <<"5", ".", "0">>, ds) : ds \in {D12, DBad, Blank}}
    \cup {LoadItem(ty, c, a, DBad) :
              ty \in {IncomeStr, <<"x">>}, c \in {Food, <<" ">>}, a \in {<<"x">>, <<>>}}

GoodItem ==
    [t_type |-> ExpenseStr, category |-> rent, amount |-> <<"2", ".", "0">>,
     date |-> D0102, description |-> <<>>]

LoadSnapshots ==
    {<<<<D0101, <<it>>>>>> : it \in LoadItems}
    \cup {<<<<D0102, <<GoodItem>>>>, <<D0101, <<it>>>>>> : it \in LoadItems}

NextLoad == Load(MaxLoad, LoadSnapshots, Clock)

SpecLoad == Init /\ [][NextLoad]_vars

\* the kind of the first error the setters raise, on a new factory object,
\* for the fields of the item in the order type, category, amount, date
ItemOutcome(item, now) ==
    LET e1 == FactoryTType(NewFactory, item.t_type).ret.kind
        e2 == FactoryCategory(NewFactory, item.category).ret.kind
        e3 == FactoryAmount(NewFactory, item.amount).ret.kind
        e4 == FactoryDate(NewFactory, item.date, now).ret.kind
    IN  IF e1 # "ok" THEN e1 ELSE IF e2 # "ok" THEN e2
        ELSE IF e3 # "ok" THEN e3 ELSE e4

\* the date an accepted item is given: its own, or today's for a blank one
ItemDate(item, now) == IF Strip(item.date) = <<>> THEN IsoFormat(now) ELSE item.date

\* the transaction an accepted item becomes
ItemStored(item, now) ==
    [t_type |-> TypeName(item.t_type), category |-> item.category,
     amount |-> FloatOf(item.amount).val, date |-> ItemDate(item, now),
     description |-> item.description]

\* the number of items in front of the first one a setter rejects
RECURSIVE Accepted(_, _)
Accepted(items, now) ==
    IF items = <<>> \/ ItemOutcome(Head(items), now) # "ok" THEN 0
    ELSE 1 + Accepted(Tail(items), now)

\* C23: loading a snapshot passes every field of every record through the
\* setters: the load fails at the first record with a blank or invalid type,
\* a blank category, a blank, non-numeric or negative amount or a malformed
\* date, with the error kind the setter raises for that value, and every
\* record in front of it is appended under the key given by its date.
C23_LoadRevalidates ==
    [][last'.op = "deserialize" =>
        LET items == SnapshotItems(last'.args[1])
            now == last'.args[2]
            n == Accepted(items, now)
            taken == [i \in 1..n |-> ItemStored(items[i], now)]
        IN  /\ last'.ret.kind = IF n = Len(items) THEN "ok"
                                ELSE ItemOutcome(items[n + 1], now)
            /\ n < Len(items) => last'.ret.kind \in
                    {"EmptyInputError", "InvalidInputError"}
            /\ \A k \in KeySet(data') \cup KeySet(data) \cup {taken[i].date : i \in 1..n} :
                    /\ HasKey(data', k)
                    /\ Get(data', k) =
                         (IF HasKey(data, k) THEN Get(data, k) ELSE <<>>)
                         \o SelectSeq(taken, LAMBDA t : t.date = k)]_vars

\* C23 witness: a load stopped at its second record, the first one stored
C23_Witness ==
    /\ last.op = "deserialize"
    /\ last.ret.kind = "InvalidInputError"
    /\ Len(SnapshotItems(last.args[1])) = 2
    /\ HasKey(data, D0102)
    /\ Get(data, D0102) = <<ItemStored(GoodItem, last.args[2])>>

(***************************************************************************)
(* main(): the run of the command-line program.  One action per prompt:    *)
(* the line typed there, handled up to the next prompt.  An error no       *)
(* except clause around the statement names leaves the loop and main(),    *)
(* whose finally clause writes the ledger to the file first.               *)
(***************************************************************************)
\* str.upper() on one character
UpperChar(c) ==
    IF \E i \in 1..Len(LowerChars) : LowerChars[i] = c
    THEN UpperChars[CHOOSE i \in 1..Len(LowerChars) : LowerChars[i] = c]
    ELSE c

\* str.capitalize()
Capitalize(s) == IF s = <<>> THEN <<>> ELSE <<UpperChar(s[1])>> \o Lower(Tail(s))

PATTERN_MAIN_MENU == {<<"0">>, <<"1">>, <<"2">>, <<"3">>, <<"4">>}

PATTERN_VIEW_TRANSACTIONS_MENU == {<<"0">>, <<"1">>, <<"2">>, <<"3">>, <<"4">>, <<"5">>}

PATTERN_VIEW_FINANCIAL_SUMMARY_MENU == {<<"0">>, <<"1">>, <<"2">>, <<"3">>}

\* handle_menu_choice(option, pattern)
HandleMenuChoice(option, pattern) ==
    IF Strip(option) = <<>> THEN Raise("EmptyInputError")
    ELSE IF Strip(option) \notin pattern THEN Raise("InvalidInputError")
    ELSE Ok(TRUE)

\* read_json() of a file holding the JSON object f (none: the empty object)
ReadJson(f) == f

\* the end of main() that writes the file only when the user chose Exit
FinallyOnExitOnly(r, d, how) ==
    IF how = "exit"
    THEN [r EXCEPT !.pc = "done", !.how = how, !.file = JsonOf(ToDict(d)),
                   !.saved = TRUE]
    ELSE [r EXCEPT !.pc = "done", !.how = how]

\* the end of main(): the finally clause writes manager.to_dict() whichever
\* way the try block is left (sys.exit(0), KeyboardInterrupt, an error)
Finally(r, d, how) ==
    [r EXCEPT !.pc = "done", !.how = how, !.file = JsonOf(ToDict(d)),
              !.saved = TRUE]

\* main() after a statement of the loop with the outcome ret: at the prompt
\* next when it returned, at the prompt the except clause naming the error
\* leads to when there is one, and otherwise out of the loop and of main()
After(r, d, ret, handlers, next) ==
    IF ret.kind = "ok" THEN [r EXCEPT !.pc = next]
    ELSE IF ret.kind \in DOMAIN handlers THEN [r EXCEPT !.pc = handlers[ret.kind]]
    ELSE Finally(r, d, ret.kind)

\* the except clauses around a statement, as error kind :> prompt
Handle(kinds, pc) == [k \in kinds |-> pc]

\* lines 22-28: read_json, a new manager, deserialize_transactions
Startup(clock) ==
    \E now \in clock :
        /\ run.pc = "start"
        /\ LET r == DeserializeTransactions(ReadJson(run.file), <<>>, now)
           IN  /\ data' = r.data
               /\ run' = After([run EXCEPT !.content = ReadJson(run.file)],
                               r.data, r.ret, <<>>, "main")
               /\ last' = Call("startup", <<run.file, now>>, r.ret)
        /\ UNCHANGED <<caps, rangeFn, builder>>

\* Ctrl+C at a prompt: except KeyboardInterrupt, sys.exit(0), finally
Interrupt ==
    /\ run.pc \notin {"start", "done"}
    /\ run' = Finally(run, data, "KeyboardInterrupt")
    /\ last' = Call("interrupt", <<run.pc>>, Ok(<<>>))
    /\ UNCHANGED <<data, caps, rangeFn, builder>>

\* the main menu (lines 31-43, 88, 224, 299)
MainMenu(max, opts) ==
    \E line \in opts :
        LET option == Strip(line)
        IN  /\ run.pc = "main"
            /\ option = <<"1">> => Len(Values(data)) < max
            /\ run' = IF option = <<"0">> THEN Finally(run, data, "exit")
                      ELSE IF option = <<"1">> THEN [run EXCEPT !.pc = "add_type"]
                      ELSE IF option = <<"2">> THEN [run EXCEPT !.pc = "view"]
                      ELSE IF option = <<"3">> THEN [run EXCEPT !.pc = "summary"]
                      ELSE IF option = <<"4">> THEN [run EXCEPT !.pc = "del_date"]
                      ELSE run
            /\ builder' = IF option = <<"1">> THEN NewFactory ELSE builder
            /\ last' = Call("main_menu", <<option>>,
                            HandleMenuChoice(option, PATTERN_MAIN_MENU))
            /\ UNCHANGED <<data, caps, rangeFn>>

\* lines 44-54
EnterType(ss) ==
    \E line \in ss :
        LET r == FactoryTType(builder, Lower(Strip(line)))
        IN  /\ run.pc = "add_type"
            /\ builder' = r.b
            /\ run' = After(run, data, r.ret,
                            Handle({"EmptyInputError", "InvalidInputError"}, "add_type"),
                            "add_category")
            /\ last' = Call("enter_type", <<line>>, r.ret)
            /\ UNCHANGED <<data, caps, rangeFn>>

\* lines 56-62
EnterCategory(ss) ==
    \E line \in ss :
        LET r == FactoryCategory(builder, Strip(line))
        IN  /\ run.pc = "add_category"
            /\ builder' = r.b
            /\ run' = After(run, data, r.ret,
                            Handle({"EmptyInputError"}, "add_category"), "add_amount")
            /\ last' = Call("enter_category", <<line>>, r.ret)
            /\ UNCHANGED <<data, caps, rangeFn>>

\* lines 64-70
EnterAmount(ss) ==
    \E line \in ss :
        LET r == FactoryAmount(builder, Strip(line))
        IN  /\ run.pc = "add_amount"
            /\ builder' = r.b
            /\ run' = After(run, data, r.ret,
                            Handle({"EmptyInputError", "InvalidInputError"}, "add_amount"),
                            "add_date")
            /\ last' = Call("enter_amount", <<line>>, r.ret)
            /\ UNCHANGED <<data, caps, rangeFn>>

\* lines 72-80
EnterDate(ss, clock) ==
    \E line \in ss, now \in clock :
        LET r == FactoryDate(builder, Strip(line), now)
        IN  /\ run.pc = "add_date"
            /\ builder' = r.b
            /\ run' = After(run, data, r.ret,
                            Handle({"InvalidInputError"}, "add_date"), "add_description")
            /\ last' = Call("enter_date", <<line, now>>, r.ret)
            /\ UNCHANGED <<data, caps, rangeFn>>

\* lines 82-87: the description, then add_transaction
EnterDescription(ss) ==
    \E line \in ss :
        LET r == FactoryDescription(builder, Capitalize(Strip(line)))
        IN  /\ run.pc = "add_description"
            /\ builder' = r.b
            /\ data' = AddTransaction(data, r.b)
            /\ run' = [run EXCEPT !.pc = "main"]
            /\ last' = Call("enter_description", <<line>>, Ok(r.b))
            /\ UNCHANGED <<caps, rangeFn>>

\* the view menu (lines 90-108, 136, 164, 192)
ViewMenu(opts) ==
    \E line \in opts :
        LET option == Strip(line)
            r == IF option = <<"1">> THEN ShowAllTransactionsForAllTime(data)
                 ELSE [data |-> data,
                       ret |-> HandleMenuChoice(option, PATTERN_VIEW_TRANSACTIONS_MENU)]
        IN  /\ run.pc = "view"
            /\ data' = r.data
            /\ run' =
                 IF option = <<"0">> THEN [run EXCEPT !.pc = "main"]
                 ELSE IF option = <<"1">>
                 THEN After(run, r.data, r.ret,
                            Handle({"TransactionNotFoundError"}, "view"), "view")
                 ELSE IF option = <<"2">>
                 THEN [run EXCEPT !.pc = "range_start", !.sel = "range"]
                 ELSE IF option = <<"3">>
                 THEN [run EXCEPT !.pc = "range_start", !.sel = "income"]
                 ELSE IF option = <<"4">>
                 THEN [run EXCEPT !.pc = "range_start", !.sel = "expenses"]
                 ELSE IF option = <<"5">>
                 THEN [run EXCEPT !.pc = "category", !.sel = "category"]
                 ELSE run
            /\ last' = Call("view_menu", <<option>>, r.ret)
            /\ UNCHANGED <<caps, rangeFn, builder>>

\* lines 193-195
EnterQueryCategory(ss) ==
    \E line \in ss :
        /\ run.pc = "category"
        /\ run' = [run EXCEPT !.pc = "range_start", !.category = Lower(Strip(line))]
        /\ last' = Call("enter_query_category", <<line>>, Ok(<<>>))
        /\ UNCHANGED <<data, caps, rangeFn, builder>>

\* the start date prompt of the six range queries (lines 109-118 and alike)
EnterStart(ss) ==
    \E line \in ss :
        LET r == GetTransactionsByDateRange(Strip(line))
        IN  /\ run.pc = "range_start"
            /\ rangeFn' = IF r.kind = "ok" THEN <<r.val>> ELSE rangeFn
            /\ run' = After(run, data, r,
                            Handle({"InvalidInputError"}, "range_start"), "range_end")
            /\ last' = Call("enter_start", <<line>>, r)
            /\ UNCHANGED <<data, caps, builder>>

\* the menu a range query returns to
MenuOf(sel) == IF sel \in {"total_income", "total_expense"} THEN "summary" ELSE "view"

\* the query the menu option stands for, on the resolved dates
Query(d, sel, category, ks) ==
    IF sel = "range" THEN ShowTransactionByDateRange(d, ks)
    ELSE IF sel = "income" THEN ShowTransactionIncomeByRange(d, ks)
    ELSE IF sel = "expenses" THEN ShowTransactionExpensesByRange(d, ks)
    ELSE IF sel = "category" THEN ShowTransactionByCategory(d, category, ks)
    ELSE IF sel = "total_income" THEN ShowTotalTypeByRange(d, "income", ks)
    ELSE ShowTotalTypeByRange(d, "expense", ks)

\* the except clauses around the end date prompt of the query
QueryHandlers(sel) ==
    IF sel = "category"
    THEN [k \in {"InvalidInputError", "CategoryNotFoundError",
                 "TransactionNotFoundError"} |->
             IF k = "InvalidInputError" THEN "range_end" ELSE "view"]
    ELSE [k \in {"InvalidInputError", "TransactionNotFoundError"} |->
             IF k = "InvalidInputError" THEN "range_end" ELSE MenuOf(sel)]

\* the end date prompt of the six range queries (lines 120-134 and alike)
EnterEnd(ss, clock) ==
    \E line \in ss, now \in clock :
        LET ks == Inner(data, rangeFn[1], Strip(line), now)
            r == IF ks.kind # "ok" THEN [data |-> data, ret |-> ks]
                 ELSE Query(data, run.sel, run.category, ks.val)
        IN  /\ run.pc = "range_end"
            /\ data' = r.data
            /\ run' = After(run, r.data, r.ret, QueryHandlers(run.sel), MenuOf(run.sel))
            /\ last' = Call("enter_end", <<run.sel, line, now>>, r.ret)
            /\ UNCHANGED <<caps, rangeFn, builder>>

\* the summary menu (lines 226-239, 267-268, 296-297)
SummaryMenu(opts) ==
    \E line \in opts :
        LET option == Strip(line)
        IN  /\ run.pc = "summary"
            /\ run' =
                 IF option = <<"0">> THEN [run EXCEPT !.pc = "main"]
                 ELSE IF option = <<"1">>
                 THEN [run EXCEPT !.pc = "range_start", !.sel = "total_income"]
                 ELSE IF option = <<"2">>
                 THEN [run EXCEPT !.pc = "range_start", !.sel = "total_expense"]
                 ELSE run
            /\ last' = Call("summary_menu", <<option>>,
                            IF option = <<"3">> THEN ShowCurrentBalance(data)
                            ELSE HandleMenuChoice(option,
                                                  PATTERN_VIEW_FINANCIAL_SUMMARY_MENU))
            /\ UNCHANGED <<data, caps, rangeFn, builder>>

\* the date prompt of the delete flow (lines 300-315)
EnterDeleteDate(ss) ==
    \E line \in ss :
        LET choice_date == Strip(line)
            r == ShowTransactionByDate(data, choice_date)
        IN  /\ run.pc = "del_date"
            /\ IF choice_date = <<>>
               THEN /\ UNCHANGED <<caps, run>>
                    /\ last' = Call("enter_delete_date", <<line>>, Ok(<<>>))
               ELSE /\ caps' = IF r.kind = "ok" THEN [caps EXCEPT ![1] = r.val]
                                ELSE caps
                    /\ run' = After(run, data, r,
                                    [k \in {"InvalidInputError",
                                            "TransactionNotFoundError"} |->
                                        IF k = "InvalidInputError" THEN "del_date"
                                        ELSE "main"],
                                    "del_index")
                    /\ last' = Call("enter_delete_date", <<line>>, r)
            /\ UNCHANGED <<data, rangeFn, builder>>

\* the serial number prompt of the delete flow (lines 317-324)
EnterIndex(ss) ==
    \E line \in ss :
        LET r == DeleteTransaction(data, caps[1], Strip(line))
            after == After(run, r.data, r.ret, Handle({"IndexError"}, "del_index"), "main")
        IN  /\ run.pc = "del_index"
            /\ data' = r.data
            /\ caps' = [caps EXCEPT ![1].list = r.list]
            /\ run' = IF r.ret.kind = "ok"
                      THEN [after EXCEPT !.deleted = @ \cup {ItemOf(r.ret.val)}]
                      ELSE after
            /\ last' = Call("enter_index", <<line>>, r.ret)
            /\ UNCHANGED <<rangeFn, builder>>

(***************************************************************************)
(* A run of main() from a file that holds no snapshot, one record, or      *)
(* three records of which the second has a negative amount.                *)
(***************************************************************************)
MaxCliTx == 2

\* a record as write_json leaves it in the file
FileItem(ty, c, a, ds) ==
    [t_type |-> ty, category |-> c, amount |-> a, date |-> ds, description |-> <<"-">>]

StartFiles ==
    {<<>>,
     <<<<D0101, <<FileItem(IncomeStr, Food, <<"5", ".", "0">>, D0101)>>>>>>,
     <<<<D0101, <<FileItem(IncomeStr, Food, <<"5", ".", "0">>, D0101),
                  FileItem(IncomeStr, Food, <<"-", "5", ".", "0">>, D0101)>>>>,
       <<D0102, <<FileItem(ExpenseStr, rent, <<"2", ".", "0">>, D0102)>>>>>>}

InitCli ==
    /\ data = <<>>
    /\ caps = [c \in 1..NCaps |-> NoCap]
    /\ rangeFn = <<>>
    /\ builder = NewFactory
    /\ run \in {[NoRun EXCEPT !.file = f] : f \in StartFiles}
    /\ last = Call("init", <<>>, Ok(<<>>))

Today == {<<2024, 1, 2>>}

NextCli ==
    \/ Startup(Today)
    \/ Interrupt
    \/ MainMenu(MaxCliTx, {<<"0">>, <<"1">>, <<"2">>, <<"3">>, <<"4">>, <<"9">>})
    \/ EnterType({<<" ", "I", "n", "c", "o", "m", "e">>, <<"x">>})
    \/ EnterCategory({Food, <<" ">>})
    \/ EnterAmount({<<"5">>, <<"-", "5">>})
    \/ EnterDate({D0101, DBad, Blank}, Today)
    \/ EnterDescription({<<"f", "O">>})
    \/ ViewMenu({<<"0">>, <<"1">>, <<"2">>, <<"3">>, <<"4">>, <<"5">>, <<>>})
    \/ EnterQueryCategory({food, <<>>})
    \/ EnterStart({Blank, D0102, DBad})
    \/ EnterEnd({Blank, D0101, DBad}, Today)
    \/ SummaryMenu({<<"0">>, <<"1">>, <<"2">>, <<"3">>, <<"7">>})
    \/ EnterDeleteDate({Blank, D0101, DBad, D0501})
    \/ EnterIndex({<<"1">>, <<"4">>, <<"x">>})

SpecCli == InitCli /\ [][NextCli]_vars

\* C21: no error of the program's own taxonomy raised while the loop of
\* main() runs ends the run: whenever the run has ended after the snapshot
\* was loaded, it ended by Exit or by an interrupt, not by such an error.
C21_LoopCatchesTaxonomyErrors ==
    (run.pc = "done" /\ last.op # "startup") => run.how \notin FinanceTrackerErrors

\* C22: whichever way the run ends (Exit, an interrupt at a prompt, an error
\* that leaves the loop), the file has been written and holds the snapshot
\* of the ledger as it is at that moment.
C22_SnapshotWrittenOnEveryEnd ==
    run.pc = "done" => (run.saved /\ run.file = JsonOf(ToDict(data)))

\* C22 witness: a run ended by an error that left the loop, the ledger not empty
C22_Witness ==
    /\ run.pc = "done"
    /\ run.how = "InvalidInputError"
    /\ last.op = "enter_index"
    /\ Values(data) # <<>>
    /\ run.file = JsonOf(ToDict(data))

\* the records of a snapshot, as a set
ItemSet(snap) == {SnapshotItems(snap)[i] : i \in 1..Len(SnapshotItems(snap))}

\* C27: a run drops no persisted record: when the run has ended, every
\* record of the snapshot read at the start that the delete flow did not
\* remove is in the snapshot the file holds, also when a record was rejected
\* while the snapshot was loaded.
C27_NoPersistedRecordDropped ==
    run.pc = "done" =>
        \A item \in ItemSet(run.content) :
            item \in run.deleted \/ item \in ItemSet(run.file)

\* C24: show_all_transactions_for_all_time returns every date key, in
\* ascending order of the dates, and raises TransactionNotFoundError exactly
\* when the ledger holds no transaction (so that queries between two calls,
\* which store nothing, leave its result the same).
C24_AllDatesSorted ==
    last.op = "show_all" =>
        /\ last.ret.kind = "TransactionNotFoundError" <=> Values(data) = <<>>
        /\ last.ret.kind = "ok" =>
              LET ks == last.ret.val.dates
              IN  /\ NoRepeat(ks)
                  /\ {ks[i] : i \in 1..Len(ks)} = KeySet(data)
                  /\ \A i \in 1..(Len(ks) - 1) :
                        DateLE(Strptime(ks[i]), Strptime(ks[i + 1]))

\* C25: the two phases of the range resolver are independent.  Binding a
\* blank start records no lower bound, binding a malformed start raises
\* InvalidInputError and returns no closure (the one bound before stays).
\* A resolve changes neither the closure nor the ledger, works on the start
\* that was bound and on the keys the ledger has when it is called, and after
\* a resolve that failed a resolve with valid bounds succeeds against the
\* same start.  No other step takes the closure away.
C25_ResolverPhasesIndependent ==
    [][/\ last'.op = "bind_start" =>
            LET s == last'.args[1]
            IN  /\ data' = data
                /\ s = Blank =>
                      last'.ret.kind = "ok" /\ rangeFn' = <<[start |-> Blank]>>
                /\ (s # Blank /\ Strptime(s) = NoDate) =>
                      /\ last'.ret = Raise("InvalidInputError")
                      /\ rangeFn' = rangeFn
                /\ (s # Blank /\ Strptime(s) # NoDate) =>
                      last'.ret.kind = "ok" /\ rangeFn' = <<[start |-> Strptime(s)]>>
       /\ last'.op # "bind_start" => rangeFn' = rangeFn
       /\ last'.op = "resolve" =>
            LET lo == rangeFn[1].start
                end == last'.args[2]
                now == last'.args[3]
                D == last'.ret.val
            IN  /\ data' = data
                /\ last'.args[1] = lo
                /\ last'.ret.kind = "ok" =>
                      {D[i] : i \in 1..Len(D)} =
                      {k \in KeySet(data') : InBounds(k, lo, UpperBound(end, now))}
                /\ (last.op = "resolve" /\ last.ret.kind # "ok"
                    /\ ValidBounds(lo, end, now)) => last'.ret.kind = "ok"
      ]_vars

\* C25 witness: a resolve has failed on a closure bound to a start date, and a
\* resolve of the same closure with another end date returns a key of the ledger
C25_Witness ==
    /\ last.op = "resolve"
    /\ last.ret.kind = "InvalidInputError"
    /\ rangeFn = <<[start |-> <<2024, 1, 2>>]>>
    /\ \E now \in Clock :
          LET r == Inner(data, rangeFn[1], D0501, now)
          IN  r.kind = "ok" /\ r.val = <<D0102>>

(***************************************************************************)
(* Adds under padded and non-padded dates with two delete closures on one  *)
(* date, so that a closure can be stale when it is called.                 *)
(***************************************************************************)
NextKeyed ==
    \/ Add(MaxTx, Types, {Food}, {5}, {D0101, D12})
    \/ ShowByDate({D0101}, {1, 2})
    \/ DeleteAt({1, 2}, {<<"1">>, <<"2">>})

SpecKeyed == Init /\ [][NextKeyed]_vars

\* the number of times t occurs in the sequence
Occurrences(seq, t) == Cardinality({i \in 1..Len(seq) : seq[i] = t})

====
